---- MODULE Spec2Model ----
(***************************************************************************)
(* A model of pulsar's greenlet pool (pulsar/apps/greenio/__init__.py).    *)
(*                                                                         *)
(* One event-loop thread runs everything.  The loop keeps a FIFO of ready  *)
(* callbacks (call_soon); a callback runs on the main greenlet and may     *)
(* switch into a pool greenlet, which runs until it switches back to its   *)
(* parent.  While a pool greenlet runs, the main greenlet is suspended     *)
(* inside greenlet.switch(): `current` names the greenlet that executes.   *)
(***************************************************************************)
EXTENDS Integers, Sequences, FiniteSets, TLC

\* ---- bounds of the model ------------------------------------------------
NumTasks == 3          \* submit calls made on the pool
MaxN == 2              \* largest max_workers argument tried
MaxWaits == 1          \* wait() calls the callables make in all
MaxShutdowns == 1      \* shutdown calls made on the pool
MaxRigs == 2           \* greenlets run_in_greenlet starts
MaxWaitCalls == 3      \* wait() calls made under run_in_greenlet
MaxReqs == 3           \* requests a worker is offered
MaxK == 2              \* largest cfg.max_requests tried
MaxShutDownCalls == 2  \* _shut_down calls made on a worker

\* ---- program constants --------------------------------------------------
_DEFAULT_WORKERS == 100
_MAX_WORKERS == 1000
MaxSize == 2147483647  \* sys.maxsize

NoTask == 0            \* the None entry (shutdown sentinel)
NoCtx == 0
Main == 0              \* the main greenlet of the event-loop thread
Tasks == 1..NumTasks
CtxIds == 1..NumTasks  \* a submit creates at most one greenlet

VARIABLES
    max_workers,   \* self._max_workers
    greenlets,     \* self._greenlets
    available,     \* self._available
    queue,         \* self._queue (index 1 is the left end of the deque)
    shutdown,      \* self._shutdown
    waiter,        \* self._waiter: index into waiters, 0 for None
    waiters,       \* the futures shutdown(wait=True) returned
    ready,         \* the loop's FIFO of call_soon callbacks
    awaiting,      \* _green_task coroutines suspended in `yield from result`
    current,       \* greenlet.getcurrent(): Main or a pool greenlet
    ctx,           \* per pool greenlet: where it is suspended or running
    fut,           \* per task: the future submit returned
    outcome,       \* per task: how its callable ended, "none" before
    nset,          \* per task: set_result/set_exception calls on its future
    handed,        \* tasks in the order _check_queue gave them a greenlet
    escaped,       \* tasks whose _green_task coroutine ended by raising
    nsubmit,       \* submit calls so far
    nshutdown,     \* shutdown calls so far
    nwait,         \* wait calls made inside the pool so far
    submitResult   \* outcome of the last submit call

vars == <<max_workers, greenlets, available, queue, shutdown, waiter, waiters,
          ready, awaiting, current, ctx, fut, outcome, nset, handed, escaped,
          nsubmit, nshutdown, nwait, submitResult>>

poolVars == <<greenlets, available, queue, waiter, waiters, ready, awaiting,
              current, ctx, fut, outcome, nset, handed, escaped>>

Min(a, b) == IF a < b THEN a ELSE b

\* ---- callables ----------------------------------------------------------
\* A callable makes wait() calls (MaxWaits in all, over every callable), each
\* on an awaitable ("F") or on a plain value ("V"), and then returns ("ret")
\* or raises ("raise").
\* What it does next is chosen when it runs.
WaitArgs == {"F", "V"}
Finals == {"ret", "raise"}

RetVal(t) == 100 + t         \* what the callable of task t returns
ErrVal(t) == 200 + t         \* what the callable of task t raises

\* ---- futures ------------------------------------------------------------
NoFuture == [st |-> "none", val |-> 0]
Pending == [st |-> "pending", val |-> 0]
SetResult(v) == [st |-> "result", val |-> v]
SetException(e) == [st |-> "error", val |-> e]

\* ---- loop callbacks -----------------------------------------------------
CheckCb == [type |-> "check", g |-> NoCtx, task |-> NoTask, ok |-> TRUE,
            val |-> 0]
TaskCb(g, task) == [type |-> "task", g |-> g, task |-> task, ok |-> TRUE,
                    val |-> 0]
\* val: what the awaited future settled with
WakeCb(g, task, ok, val) == [type |-> "wake", g |-> g, task |-> task,
                             ok |-> ok, val |-> val]

\* ---- greenlet records ---------------------------------------------------
\* st: "new" (never created), "idle" (suspended at parent.switch() in
\* _green_run), "running", "waiting" (suspended in wait()), "dead".
\* pos: the wait() calls the callable has made; got: what the last
\* wait() on an awaitable returned.
NewCtx == [st |-> "new", task |-> NoTask, pos |-> 0, got |-> 0]
IdleCtx == [st |-> "idle", task |-> NoTask, pos |-> 0, got |-> 0]

\* The pool state the helpers below read and rebuild.
PoolState == [greenlets |-> greenlets, available |-> available,
              queue |-> queue, ready |-> ready, ctx |-> ctx,
              handed |-> handed]

\* GreenPool.__init__: min(max_workers or _DEFAULT_WORKERS, _MAX_WORKERS)
InitMaxWorkers(arg) ==
    Min(IF arg = 0 THEN _DEFAULT_WORKERS ELSE arg, _MAX_WORKERS)

\* _green_run up to its parent.switch(): register as available and
\* schedule a queue check.
GreenRunIdle(p, g) ==
    [p EXCEPT !.available = @ \cup {g},
              !.ready = Append(@, CheckCb),
              !.ctx = [@ EXCEPT ![g] = IdleCtx]]

HasRoomAlways(p) == TRUE

\* _adjust_greenlet_count: the guard
HasRoom(p) == Cardinality(p.greenlets) < max_workers

\* _adjust_greenlet_count
AdjustGreenletCount(p) ==
    IF HasRoom(p)
    THEN LET g == CHOOSE c \in CtxIds : p.ctx[c].st = "new"
         IN GreenRunIdle([p EXCEPT !.greenlets = @ \cup {g}], g)
    ELSE p

PopChoicesAny(av) == CtxIds

\* The greenlets self._available.pop() may return
PopChoices(av) == IF av = {} THEN {NoCtx} ELSE av

CheckQueueKeeps(p, g) ==
    IF p.queue = <<>> THEN p
    ELSE LET task == p.queue[Len(p.queue)]
             q == SubSeq(p.queue, 1, Len(p.queue) - 1)
         IN IF p.available # {}
            THEN [p EXCEPT !.queue = q,
                           !.ready = Append(@, TaskCb(g, task)),
                           !.handed = IF task = NoTask THEN @
                                      ELSE Append(@, task)]
            ELSE [p EXCEPT !.queue = q]

\* _check_queue, with g the greenlet self._available.pop() returns
CheckQueue(p, g) ==
    IF p.queue = <<>> THEN p
    ELSE LET task == p.queue[Len(p.queue)]
             q == SubSeq(p.queue, 1, Len(p.queue) - 1)
         IN IF p.available # {}
            THEN [p EXCEPT !.queue = q,
                           !.available = @ \ {g},
                           !.ready = Append(@, TaskCb(g, task)),
                           !.handed = IF task = NoTask THEN @
                                      ELSE Append(@, task)]
            ELSE [p EXCEPT !.queue = q]

\* _put up to its call of _check_queue
PutEnqueue(p, task) ==
    LET a == IF task # NoTask THEN AdjustGreenletCount(p) ELSE p
    IN [a EXCEPT !.queue = <<task>> \o @]

\* Assign a rebuilt pool state to the variables it covers
SetPool(p) ==
    /\ greenlets' = p.greenlets
    /\ available' = p.available
    /\ queue' = p.queue
    /\ ready' = p.ready
    /\ ctx' = p.ctx
    /\ handed' = p.handed

\* _put, called in pool state p
PutOn(p, task) ==
    LET e == PutEnqueue(p, task)
    IN \E g \in PopChoices(e.available) : SetPool(CheckQueue(e, g))

\* _put
Put(task) == PutOn(PoolState, task)

\* ---- state of the other components ---------------------------------------
\* Each component is checked under its own specification; the others stay
\* in their initial state.

\* wait() and run_in_greenlet
VARIABLES
    wcur,          \* greenlet.getcurrent(): Main or a started greenlet
    wst,           \* per started greenlet: "new", "running", "waiting", "done"
    wres,          \* per started greenlet: `result` its invoker last received
    wret,          \* per caller: the value its last wait() call returned
    warg,          \* the argument of the last wait() call
    wnum           \* wait() calls so far

waitVars == <<wcur, wst, wres, wret, warg, wnum>>

Rigs == 1..MaxRigs

WaitInit ==
    /\ wcur = Main
    /\ wst = [g \in Rigs |-> "new"]
    /\ wres = [g \in Rigs |-> "none"]
    /\ wret = [g \in {Main} \cup Rigs |-> "none"]
    /\ warg = "none"
    /\ wnum = 0

\* Worker (workers/base.py)
VARIABLES
    isthread,      \* Runner.isthread
    wpc,           \* where the worker's own thread of control is
    ioloop,        \* self.ioloop: "none" (no attribute), "created",
                   \* "running", "stopping" (stop() called), "stopped"
    sigInstalled,  \* install_signals registered the handlers
    nclose,        \* self.close() calls
    stopBy,        \* who made the first _stop call that stopped the loop
    max_requests,  \* self.max_requests
    nr,            \* self.nr
    rpc,           \* where handle_request is: "idle" outside of it
    hres,          \* how _handle_request ended for the current request
    nhandled,      \* requests whose _handle_request has ended
    postCalls,     \* cfg.post_request calls made for the current request
    hookFailed,    \* the hooks among post_request, worker_exit that raised
    reqResult,     \* how the last handle_request call ended
    runResult,     \* how _run ended
    nhooks,        \* before_exit and cfg.worker_exit calls made by _run
    arbiter_proxy, \* self.arbiter_proxy is set
    shutSent,      \* arbiter_proxy.shut_down() calls
    sdCalls,       \* _shut_down calls
    sigHit,        \* nr when a stop signal first stopped the loop, else -1
    sigRpc,        \* rpc at that moment
    loopEnd        \* how ioloop.start() ended in _run, and the
                   \* log.exception calls _run made for it

workerVars == <<isthread, wpc, ioloop, sigInstalled, nclose, stopBy,
                max_requests, nr, rpc, hres, nhandled, postCalls, hookFailed,
                reqResult, runResult, nhooks, arbiter_proxy, shutSent,
                sdCalls, sigHit, sigRpc, loopEnd>>

\* Worker.__init__: getattr(cfg, 'max_requests', None) or sys.maxsize
InitMaxRequests(arg) == IF arg = 0 THEN MaxSize ELSE arg

\* Worker.__init__, with the thread or process flavour and cfg.max_requests
WorkerInitWith(thread, arg) ==
    /\ isthread = thread
    /\ wpc = "created"
    /\ ioloop = "none"
    /\ sigInstalled = FALSE
    /\ nclose = 0
    /\ stopBy = "none"
    /\ max_requests = InitMaxRequests(arg)
    /\ nr = 0
    /\ rpc = "idle"
    /\ hres = "none"
    /\ nhandled = 0
    /\ postCalls = 0
    /\ hookFailed = {}
    /\ reqResult = "none"
    /\ runResult = "none"
    /\ nhooks = [h \in {"before_exit", "worker_exit"} |-> 0]
    /\ arbiter_proxy = FALSE
    /\ shutSent = 0
    /\ sdCalls = 0
    /\ sigHit = 0 - 1
    /\ sigRpc = "none"
    /\ loopEnd = [how |-> "none", logged |-> 0]

\* A worker constructed and left alone
WorkerOff == WorkerInitWith(FALSE, 0)

\* The parent's side of the worker: the actors it manages, the commands
\* and replies in flight, and the table of messages awaiting a reply
VARIABLES
    announced,     \* the worker has sent its address (on_address fired)
    managed,       \* the worker's aid is in arbiter.MANAGED_ACTORS
    inbox,         \* commands sent to the worker and not yet handled
    outbox,        \* replies of the worker not yet delivered
    MESSAGES,      \* rids of the messages that await a reply
    result,        \* rid -> the delivered reply, "none" before it
    nping,         \* number of ping commands sent
    stopSent       \* the stop command has been sent

arbVars == <<announced, managed, inbox, outbox, MESSAGES, result, nping,
             stopSent>>

MaxPings == 1

Rids == 1..MaxPings

ArbInit ==
    /\ announced = FALSE
    /\ managed = FALSE
    /\ inbox = <<>>
    /\ outbox = <<>>
    /\ MESSAGES = {}
    /\ result = [r \in Rids |-> "none"]
    /\ nping = 0
    /\ stopSent = FALSE

\* An AsyncWorker handling client connections, one call of handle at a
\* time; nr and max_requests are the worker's
VARIABLES
    alive,         \* the worker's alive flag
    debug,         \* self.debug
    cpc,           \* where handle is: "idle" when no call is active
    exc,           \* the exception in flight in handle, "none" if none
    caught,        \* the exception handle's except clauses caught
    closes,        \* util.close(client) calls for the current client
    handleResult,  \* how the last handle call ended
    logged,        \* level at which handle logged the exception
    sent500,       \* the minimal error response was attempted
    nconn,         \* connections handled so far
    creq           \* requests handled on the current connection

connVars == <<alive, debug, cpc, exc, caught, closes, handleResult, logged,
              sent500, nconn, creq>>

ConnInitWith(dbg) ==
    /\ alive = TRUE
    /\ debug = dbg
    /\ cpc = "idle"
    /\ exc = "none"
    /\ caught = "none"
    /\ closes = 0
    /\ handleResult = "none"
    /\ logged = "none"
    /\ sent500 = FALSE
    /\ nconn = 0
    /\ creq = 0

ConnOff == ConnInitWith(FALSE)

\* One submit caller and one shutdown caller of a pool, step by step
\* around self._shutdown_lock
VARIABLES
    bySignal,      \* shutdown is called by a signal handler that interrupts
                   \* the submitting thread; else by another thread
    lockOwner,     \* who holds _shutdown_lock: "none", "submit", "shutdown"
    lpc,           \* where each caller is in its `with` block
    lflag,         \* self._shutdown
    lput,          \* the entries _put was called with, in order
    lres           \* how the submit calls ended, in order

lockVars == <<bySignal, lockOwner, lpc, lflag, lput, lres>>

Callers == {"submit", "shutdown"}

\* GreenPool.__init__: _shutdown = False, a free threading.Lock()
LockInitWith(signal) ==
    /\ bySignal = signal
    /\ lockOwner = "none"
    /\ lpc = [c \in Callers |-> "idle"]
    /\ lflag = FALSE
    /\ lput = <<>>
    /\ lres = <<>>

LockOff == LockInitWith(FALSE)

\* One call of JSONRPC._call
VARIABLES
    body,          \* the request: what request.body_data() yields
    frame,         \* the locals of _call and where it is
    res            \* the response _call yields, or the error it raises

rpcVars == <<body, frame, res>>

NoId == 0
NoBody == [parse |-> "none", jsonrpc |-> "absent", id |-> NoId,
           params |-> "absent", method |-> "absent"]
NoRes == [kind |-> "none", id |-> NoId, jsonrpc |-> "none", keys |-> {},
          error |-> "none"]

\* _call entered: `data = {}`, nothing else bound
NewFrame == [pc |-> "idle", data |-> "empty", bound |-> {}, result |-> "none"]

RpcInit ==
    /\ body = NoBody
    /\ frame = NewFrame
    /\ res = NoRes

otherVars == <<waitVars, workerVars, arbVars, connVars, lockVars, rpcVars>>
notWaitVars == <<vars, workerVars, arbVars, connVars, lockVars, rpcVars>>
notWorkerVars == <<vars, waitVars, arbVars, connVars, lockVars, rpcVars>>
notArbVars == <<vars, waitVars, connVars, lockVars, rpcVars>>
notConnVars == <<vars, waitVars, arbVars, lockVars, rpcVars>>
notLockVars == <<vars, waitVars, workerVars, arbVars, connVars, rpcVars>>
notRpcVars == <<vars, waitVars, workerVars, arbVars, connVars, lockVars>>

Init ==
    /\ max_workers \in {InitMaxWorkers(a) : a \in 0..MaxN}
    /\ greenlets = {}
    /\ available = {}
    /\ queue = <<>>
    /\ shutdown = FALSE
    /\ waiter = 0
    /\ waiters = <<>>
    /\ ready = <<>>
    /\ awaiting = {}
    /\ current = Main
    /\ ctx = [c \in CtxIds |-> NewCtx]
    /\ fut = [t \in Tasks |-> NoFuture]
    /\ outcome = [t \in Tasks |-> "none"]
    /\ nset = [t \in Tasks |-> 0]
    /\ handed = <<>>
    /\ escaped = {}
    /\ nsubmit = 0
    /\ nshutdown = 0
    /\ nwait = 0
    /\ submitResult = "none"

MainRunsAlways == TRUE

\* The main greenlet executes: it is not suspended inside a
\* greenlet.switch() into a pool greenlet
MainRuns == current = Main

ClosedNever == FALSE

\* submit: the admission check `if self._shutdown`
Closed == shutdown

\* GreenPool.submit
Submit ==
    /\ MainRuns
    /\ nsubmit < NumTasks
    /\ nsubmit' = nsubmit + 1
    /\ IF Closed
       THEN /\ submitResult' = "PoolClosed"
            /\ UNCHANGED poolVars
       ELSE LET t == nsubmit + 1
            IN /\ submitResult' = "future"
               /\ fut' = [fut EXCEPT ![t] = Pending]
               /\ Put(t)
               /\ UNCHANGED <<waiter, waiters, awaiting, current, outcome,
                              nset, escaped>>
    /\ UNCHANGED <<nwait, max_workers, shutdown, nshutdown>>
    /\ UNCHANGED otherVars

\* GreenPool.shutdown
Shutdown(wait) ==
    /\ MainRuns
    /\ nshutdown < MaxShutdowns
    /\ nshutdown' = nshutdown + 1
    /\ shutdown' = TRUE
    /\ Put(NoTask)
    /\ IF wait
       THEN /\ waiters' = Append(waiters, "pending")
            /\ waiter' = Len(waiters) + 1
       ELSE UNCHANGED <<waiter, waiters>>
    /\ UNCHANGED <<nwait, max_workers, awaiting, current, fut, outcome, nset, escaped,
                   nsubmit, submitResult>>
    /\ UNCHANGED otherVars

\* The loop runs a scheduled self._check_queue
RunCheck ==
    /\ MainRuns
    /\ ready # <<>>
    /\ Head(ready).type = "check"
    /\ LET p == [PoolState EXCEPT !.ready = Tail(ready)]
       IN \E g \in PopChoices(p.available) : SetPool(CheckQueue(p, g))
    /\ UNCHANGED <<nwait, max_workers, shutdown, waiter, waiters, awaiting, current,
                   fut, outcome, nset, escaped, nsubmit, nshutdown, submitResult>>
    /\ UNCHANGED otherVars

\* _green_task, first step: greenlet.switch(task)
GreenTask ==
    /\ MainRuns
    /\ ready # <<>>
    /\ Head(ready).type = "task"
    /\ LET cb == Head(ready)
       IN /\ current' = cb.g
          /\ ctx' = [ctx EXCEPT ![cb.g] =
                         [st |-> "running", task |-> cb.task, pos |-> 0,
                          got |-> 0]]
    /\ ready' = Tail(ready)
    /\ UNCHANGED <<nwait, max_workers, greenlets, available, queue, shutdown, waiter,
                   waiters, awaiting, fut, outcome, nset, handed, escaped,
                   nsubmit, nshutdown, submitResult>>
    /\ UNCHANGED otherVars

ResumedNone(cb) == 0

\* _green_task: the value `greenlet.switch((yield from result))` passes
\* into the greenlet, which wait() returns there
Resumed(cb) == cb.val

\* _green_task resumed with the awaitable settled:
\* greenlet.switch((yield from result)); a failed awaitable raises out of
\* the `yield from`, ending the coroutine without a switch.
GreenTaskResume ==
    /\ MainRuns
    /\ ready # <<>>
    /\ Head(ready).type = "wake"
    /\ LET cb == Head(ready)
       IN IF cb.ok
          THEN /\ current' = cb.g
               /\ ctx' = [ctx EXCEPT ![cb.g].st = "running",
                                      ![cb.g].got = Resumed(cb)]
               /\ UNCHANGED escaped
          ELSE /\ escaped' = escaped \cup {cb.task}
               /\ UNCHANGED <<current, ctx>>
    /\ ready' = Tail(ready)
    /\ UNCHANGED <<nwait, max_workers, greenlets, available, queue, shutdown, waiter,
                   waiters, awaiting, fut, outcome, nset, handed,
                   nsubmit, nshutdown, submitResult>>
    /\ UNCHANGED otherVars

\* The result the k-th awaitable of task t settles with
AwaitVal(t, k) == 300 + 10 * t + k

\* An awaitable a _green_task coroutine is suspended on settles, with a
\* value (ok) or an error; the loop schedules the coroutine's wakeup.
Settle(w, ok) ==
    /\ MainRuns
    /\ w \in awaiting
    /\ awaiting' = awaiting \ {w}
    /\ ready' = Append(ready, WakeCb(w.g, w.task, ok,
                                     IF ok THEN AwaitVal(w.task, ctx[w.g].pos)
                                     ELSE ErrVal(w.task)))
    /\ UNCHANGED <<nwait, max_workers, greenlets, available, queue, shutdown, waiter,
                   waiters, current, ctx, fut, outcome, nset, handed, escaped,
                   nsubmit, nshutdown, submitResult>>
    /\ UNCHANGED otherVars

\* The callable running in greenlet g calls wait(w): parent.switch(value).
\* Back in _green_task, an awaitable is awaited (s says whether it is
\* still pending or has already settled), any other value ends the loop.
WaitUpTo(g, w, s, max) ==
    /\ current = g
    /\ ctx[g].task # NoTask
    /\ nwait < max
    /\ nwait' = nwait + 1
    /\ LET t == ctx[g].task
           suspended == [ctx EXCEPT ![g].st = "waiting", ![g].pos = @ + 1]
       IN IF w = "V"
          THEN /\ s = "pending"
               /\ ctx' = suspended
               /\ current' = Main
               /\ UNCHANGED <<awaiting, escaped>>
          ELSE CASE s = "pending" ->
                      /\ ctx' = suspended
                      /\ current' = Main
                      /\ awaiting' = awaiting \cup {[g |-> g, task |-> t]}
                      /\ UNCHANGED escaped
                 [] s = "ok" ->
                      /\ ctx' = [ctx EXCEPT
                                    ![g].pos = @ + 1,
                                    ![g].got = Resumed(WakeCb(g, t, TRUE,
                                        AwaitVal(t, ctx[g].pos + 1)))]
                      /\ UNCHANGED <<current, awaiting, escaped>>
                 [] s = "err" ->
                      /\ ctx' = suspended
                      /\ current' = Main
                      /\ escaped' = escaped \cup {t}
                      /\ UNCHANGED awaiting
    /\ UNCHANGED <<max_workers, greenlets, available, queue, shutdown, waiter,
                   waiters, ready, fut, outcome, nset, handed,
                   nsubmit, nshutdown, submitResult>>
    /\ UNCHANGED otherVars

\* wait() as the callables of the pool call it, MaxWaits times in all
Wait(g, w, s) == WaitUpTo(g, w, s, MaxWaits)

ResolveAlwaysResult(t, f) == SetResult(RetVal(t))

\* The future resolution _green_run makes when the callable of task t
\* ends as f (returns or raises)
Resolve(t, f) ==
    IF f = "raise"
    THEN SetException(ErrVal(t))
    ELSE SetResult(RetVal(t))

\* _green_run: the callable of greenlet g returns or raises; the future is
\* resolved and the greenlet loops back to register as available.
GreenRunTask(g, f) ==
    /\ current = g
    /\ ctx[g].task # NoTask
    /\ LET t == ctx[g].task
       IN /\ outcome' = [outcome EXCEPT ![t] = f]
          /\ fut' = [fut EXCEPT ![t] = Resolve(t, f)]
          /\ nset' = [nset EXCEPT ![t] = @ + 1]
    /\ SetPool(GreenRunIdle(PoolState, g))
    /\ current' = Main
    /\ UNCHANGED <<nwait, max_workers, shutdown, waiter, waiters, awaiting,
                   escaped, nsubmit, nshutdown, submitResult>>
    /\ UNCHANGED otherVars

RemainingNever(p) == FALSE

\* _green_run: `if self._greenlets` after the greenlet removed itself
Remaining(p) == p.greenlets # {}

\* _green_run: greenlet g received None and terminates
GreenRunExit(g) ==
    /\ current = g
    /\ ctx[g].task = NoTask
    /\ LET p == [PoolState EXCEPT
                    !.greenlets = @ \ {g},
                    !.ctx = [@ EXCEPT ![g].st = "dead"]]
       IN IF Remaining(p)
          THEN /\ PutOn(p, NoTask)
               /\ UNCHANGED <<waiter, waiters>>
          ELSE /\ SetPool(p)
               /\ IF waiter # 0
                  THEN /\ waiters' = [waiters EXCEPT ![waiter] = "done"]
                       /\ waiter' = 0
                  ELSE UNCHANGED <<waiter, waiters>>
    /\ current' = Main
    /\ UNCHANGED <<nwait, max_workers, shutdown, awaiting, fut, outcome, nset, escaped,
                   nsubmit, nshutdown, submitResult>>
    /\ UNCHANGED otherVars

Next ==
    \/ Submit
    \/ \E wait \in BOOLEAN : Shutdown(wait)
    \/ RunCheck
    \/ GreenTask
    \/ GreenTaskResume
    \/ \E w \in awaiting, ok \in BOOLEAN : Settle(w, ok)
    \/ \E g \in CtxIds, w \in WaitArgs, s \in {"pending", "ok", "err"} :
          Wait(g, w, s)
    \/ \E g \in CtxIds, f \in Finals : GreenRunTask(g, f)
    \/ \E g \in CtxIds : GreenRunExit(g)

allVars == <<vars, otherVars>>

\* The pool, with the other components left in their initial state
\* The pool alone: the other components stay as constructed
PoolStart == Init /\ WaitInit /\ WorkerOff /\ ArbInit /\ ConnOff
    /\ LockOff /\ RpcInit

Spec == PoolStart /\ [][Next]_allVars

\* ---- properties ---------------------------------------------------------
Range(q) == {q[i] : i \in DOMAIN q}
Submitted == {t \in Tasks : fut[t].st # "none"}
Resolved == {t \in Tasks : fut[t].st \in {"result", "error"}}
Running == {g \in CtxIds : ctx[g].st = "running"}
Dead == {g \in CtxIds : ctx[g].st = "dead"}

\* Nothing is left to run: the loop has no callback, no coroutine awaits,
\* and every callable that was started has returned or raised.
Quiescent ==
    /\ current = Main
    /\ ready = <<>>
    /\ awaiting = {}
    /\ \A g \in CtxIds : ctx[g].st \notin {"running", "waiting"}

\* C1: no submitted task is lost: once every started callable has ended
\* and the loop has nothing left to run, every future submit returned is
\* resolved.
C1_NoTaskLost == Quiescent => Submitted \subseteq Resolved

\* C2: the number of live greenlets never exceeds max_workers.
C2_LiveBounded == Cardinality(greenlets) <= max_workers

C2_Witness ==
    /\ Cardinality(greenlets) = max_workers
    /\ Cardinality(Submitted) > max_workers

\* C3: at most one pool greenlet executes, and it is the one the main
\* greenlet switched into; while the main greenlet runs, none does.
C3_OneRunning ==
    /\ Cardinality(Running) <= 1
    /\ current = Main => Running = {}
    /\ current # Main => Running = {current}

C3_Witness ==
    \E g1, g2 \in CtxIds :
        /\ g1 # g2
        /\ ctx[g1].st = "running"
        /\ ctx[g1].task # NoTask
        /\ ctx[g2].st = "waiting"

\* C4: a task's future is resolved at most once, with the callable's
\* return value if it returned and with its error if it raised, and not
\* before the callable has ended.
C4_ResolvedOnce ==
    \A t \in Tasks :
        /\ nset[t] <= 1
        /\ outcome[t] = "ret" => fut[t] = SetResult(RetVal(t))
        /\ outcome[t] = "raise" => fut[t] = SetException(ErrVal(t))
        /\ outcome[t] = "none" => (nset[t] = 0 /\ t \notin Resolved)
        /\ outcome[t] # "none" => nset[t] = 1

C4_Witness ==
    \E t1, t2 \in Tasks :
        /\ outcome[t1] = "ret" /\ fut[t1].st = "result"
        /\ outcome[t2] = "raise" /\ fut[t2].st = "error"

\* C5: with no shutdown pending, a task handed to a greenlet is preceded
\* in the hand-over order by every task submitted before it.
C5_FifoDispatch ==
    ~shutdown =>
        \A j \in DOMAIN handed : \A a \in Submitted :
            a < handed[j] => \E i \in 1..(j - 1) : handed[i] = a

\* C6: once shutdown was called the flag stays set, and a submit call
\* made then fails with the pool-closed error and changes nothing of the
\* pool.
C6_SubmitAfterShutdown ==
    [][/\ shutdown => shutdown'
       /\ (shutdown /\ nsubmit' # nsubmit) =>
              /\ submitResult' = "PoolClosed"
              /\ UNCHANGED poolVars]_vars

C6_Witness == submitResult = "PoolClosed"

\* C7: a future returned by shutdown(wait=True) is resolved only when no
\* greenlet is live: none is idle, running a task or suspended in one.
C7_WaiterOnlyWhenDrained ==
    \A i \in DOMAIN waiters :
        waiters[i] = "done" =>
            /\ greenlets = {}
            /\ \A g \in CtxIds : ctx[g].st \in {"new", "dead"}

C7_Witness ==
    /\ \E i \in DOMAIN waiters : waiters[i] = "done"
    /\ Cardinality(Dead) >= 2
    /\ Resolved # {}

\* C8: after shutdown(wait=True), once every running task has finished
\* and the loop has nothing left to run, no greenlet is live and every
\* returned future is resolved.
C8_DrainCompletes ==
    (Quiescent /\ waiters # <<>>) =>
        /\ greenlets = {}
        /\ \A i \in DOMAIN waiters : waiters[i] = "done"

\* C9: a task submitted before shutdown(wait=False) is still run to its
\* end: once the loop has nothing left to run, its future holds what the
\* callable returned or raised.
C9_ShutdownKeepsTasks ==
    (Quiescent /\ shutdown /\ waiters = <<>>) =>
        \A t \in Submitted : outcome[t] # "none" /\ t \in Resolved

\* C10: no error leaves a _green_task coroutine: an error of the callable
\* or of an awaitable it waited on is the resolution of the task's future.
C10_ErrorsCaptured ==
    /\ escaped = {}
    /\ \A t \in Tasks : outcome[t] = "raise" => fut[t].st = "error"

\* ==== wait() and run_in_greenlet ==========================================
\* The pool left as constructed
PoolInit == Init /\ max_workers = InitMaxWorkers(0)

NoParent == 0 - 1      \* greenlet.parent of the main greenlet (None)

\* greenlet.parent: a greenlet run_in_greenlet starts is created by the
\* main greenlet; the main greenlet has none
Parent(g) == IF g = Main THEN NoParent ELSE Main

\* isfuture(result)
IsFuture(v) == v = "F"

WaitCallNone(cur, value) ==
    IF Parent(cur) # NoParent
    THEN [switch |-> TRUE, to |-> Parent(cur), value |-> value]
    ELSE [switch |-> FALSE, to |-> cur, value |-> "none"]

\* wait(value) called by greenlet cur:
\* `parent.switch(value) if parent else value`
WaitCall(cur, value) ==
    IF Parent(cur) # NoParent
    THEN [switch |-> TRUE, to |-> Parent(cur), value |-> value]
    ELSE [switch |-> FALSE, to |-> cur, value |-> value]

\* run_in_greenlet: gr = GreenletWorker(callable); result = gr.switch(...)
RigStart(g) ==
    /\ wcur = Main
    /\ wst[g] = "new"
    /\ wst' = [wst EXCEPT ![g] = "running"]
    /\ wcur' = g
    /\ UNCHANGED <<wres, wret, warg, wnum>>
    /\ UNCHANGED notWaitVars

\* The running code, on the main line or in a started greenlet, calls
\* wait(v)
WaitStep(v) ==
    /\ wnum < MaxWaitCalls
    /\ wcur # Main => wst[wcur] = "running"
    /\ LET r == WaitCall(wcur, v)
       IN /\ wcur' = r.to
          /\ IF r.switch
             THEN /\ wst' = [wst EXCEPT ![wcur] = "waiting"]
                  /\ wres' = [wres EXCEPT ![wcur] = r.value]
                  /\ UNCHANGED wret
             ELSE /\ wret' = [wret EXCEPT ![wcur] = r.value]
                  /\ UNCHANGED <<wst, wres>>
    /\ warg' = v
    /\ wnum' = wnum + 1
    /\ UNCHANGED notWaitVars

\* run_in_greenlet: while isfuture(result):
\*     result = gr.switch((yield from result))
\* the greenlet's wait() returns the settled value "S"
RigResume(g) ==
    /\ wcur = Main
    /\ wst[g] = "waiting"
    /\ IsFuture(wres[g])
    /\ wst' = [wst EXCEPT ![g] = "running"]
    /\ wret' = [wret EXCEPT ![g] = "S"]
    /\ wres' = [wres EXCEPT ![g] = "none"]
    /\ wcur' = g
    /\ UNCHANGED <<warg, wnum>>
    /\ UNCHANGED notWaitVars

\* The callable of a started greenlet returns "R": the greenlet ends and
\* its parent receives the value as `result`
RigReturn(g) ==
    /\ wcur = g
    /\ wst[g] = "running"
    /\ wst' = [wst EXCEPT ![g] = "done"]
    /\ wres' = [wres EXCEPT ![g] = "R"]
    /\ wcur' = Parent(g)
    /\ UNCHANGED <<wret, warg, wnum>>
    /\ UNCHANGED notWaitVars

WaitNext ==
    \/ \E g \in Rigs : RigStart(g)
    \/ \E v \in WaitArgs : WaitStep(v)
    \/ \E g \in Rigs : RigResume(g)
    \/ \E g \in Rigs : RigReturn(g)

WaitStart == PoolInit /\ WaitInit /\ WorkerOff /\ ArbInit /\ ConnOff
    /\ LockOff /\ RpcInit

WaitSpec == WaitStart /\ [][WaitNext]_allVars

\* C11: a wait(value) call made on the main line returns value and
\* switches nowhere; made inside a started greenlet it suspends that
\* greenlet, and its invoker resumes with value as the result.
C11_WaitSwitch ==
    [][wnum' # wnum =>
          IF wcur = Main
          THEN /\ wcur' = Main
               /\ wret'[Main] = warg'
               /\ UNCHANGED <<wst, wres>>
          ELSE /\ wcur' = Parent(wcur)
               /\ wst'[wcur] = "waiting"
               /\ wres'[wcur] = warg'
               /\ UNCHANGED wret]_allVars

C11_Witness ==
    /\ wret[Main] # "none"
    /\ \E g \in Rigs : wst[g] = "waiting" /\ wres[g] = "V"
    /\ \E g \in Rigs : wret[g] = "S"

\* ==== Worker (workers/base.py) ============================================
Signals == {"INT", "QUIT", "TERM", "HUP"}

\* The handler install_signals finds for a signal: handle_int, handle_quit
\* and handle_term are signal_stop; other signals keep their default
HandlerOf(sig) ==
    IF sig \in {"INT", "QUIT", "TERM"} THEN "signal_stop" ELSE "default"

\* ioloop.running()
LoopRunning(io) == io = "running"

StopAppliesAlways(io) == TRUE

\* _stop: `if hasattr(self, 'ioloop'): if self.ioloop.running()`
StopApplies(io) == io # "none" /\ LoopRunning(io)

StoppedNever(io) == io

\* _stop: the loop after self.close(); self.ioloop.stop()
Stopped(io) == IF StopApplies(io) THEN "stopping" ELSE io

\* _stop called by `who`
Stop(who) ==
    /\ ioloop' = Stopped(ioloop)
    /\ IF StopApplies(ioloop)
       THEN /\ nclose' = nclose + 1
            /\ stopBy' = IF stopBy = "none" THEN who ELSE stopBy
       ELSE UNCHANGED <<nclose, stopBy>>

\* The parent starts the worker's process or thread
Spawn ==
    /\ wpc = "created"
    /\ wpc' = "spawned"
    /\ UNCHANGED <<isthread, loopEnd, ioloop, sigInstalled, nclose, stopBy,
                   max_requests, nr, rpc, hres, nhandled, postCalls, hookFailed,
                   reqResult, runResult, nhooks, arbiter_proxy, shutSent,
                   sdCalls, sigHit, sigRpc>>
    /\ UNCHANGED notWorkerVars

\* init_runner: set_proctitle() and setup()
Setup ==
    /\ wpc = "spawned"
    /\ wpc' = "setup"
    /\ ioloop' = "created"
    /\ UNCHANGED <<isthread, loopEnd, sigInstalled, nclose, stopBy, max_requests, nr,
                   rpc, hres, nhandled, postCalls, hookFailed, reqResult,
                   runResult, nhooks, arbiter_proxy, shutSent, sdCalls, sigHit,
                   sigRpc>>
    /\ UNCHANGED notWorkerVars

\* init_runner: install_signals(), on the main thread of a process only
InstallSignals ==
    /\ wpc = "setup"
    /\ wpc' = "installed"
    /\ sigInstalled' = ~isthread
    /\ UNCHANGED <<isthread, loopEnd, ioloop, nclose, stopBy, max_requests, nr, rpc,
                   hres, nhandled, postCalls, hookFailed, reqResult, runResult,
                   nhooks, arbiter_proxy, shutSent, sdCalls, sigHit, sigRpc>>
    /\ UNCHANGED notWorkerVars

\* _run: self.ioloop.start()
StartLoop ==
    /\ wpc = "installed"
    /\ wpc' = "running"
    /\ ioloop' = "running"
    /\ UNCHANGED <<isthread, loopEnd, sigInstalled, nclose, stopBy, max_requests, nr,
                   rpc, hres, nhandled, postCalls, hookFailed, reqResult,
                   runResult, nhooks, arbiter_proxy, shutSent, sdCalls, sigHit,
                   sigRpc>>
    /\ UNCHANGED notWorkerVars

\* The loop hands requests to handle_request only while it runs
Accepting == wpc = "running" /\ LoopRunning(ioloop)

\* handle_request: self.nr += 1
ReqStart ==
    /\ Accepting
    /\ rpc = "idle"
    /\ nr < MaxReqs
    /\ nr' = nr + 1
    /\ rpc' = "counted"
    /\ hres' = "none"
    /\ postCalls' = 0
    /\ reqResult' = "none"
    /\ UNCHANGED <<isthread, loopEnd, wpc, ioloop, sigInstalled, nclose, stopBy,
                   max_requests, nhandled, hookFailed, runResult, nhooks,
                   arbiter_proxy, shutSent, sdCalls, sigHit, sigRpc>>
    /\ UNCHANGED notWorkerVars

\* check_num_requests: `max_requests and self.nr >= self.max_requests`
AutoRestart(n, max) == max # 0 /\ n >= max

\* handle_request: self.check_num_requests()
ReqCheck ==
    /\ rpc = "counted"
    /\ rpc' = "checked"
    /\ IF AutoRestart(nr, max_requests)
       THEN Stop("auto")
       ELSE UNCHANGED <<ioloop, nclose, stopBy>>
    /\ UNCHANGED <<isthread, loopEnd, wpc, sigInstalled, max_requests, nr, hres,
                   nhandled, postCalls, hookFailed, reqResult, runResult, nhooks,
                   arbiter_proxy, shutSent, sdCalls, sigHit, sigRpc>>
    /\ UNCHANGED notWorkerVars

\* handle_request: self.cfg.pre_request(self, req), which returns (ok) or
\* raises; it is called before the try statement
ReqPre(ok) ==
    /\ rpc = "checked"
    /\ IF ok
       THEN /\ rpc' = "pre"
            /\ UNCHANGED reqResult
       ELSE /\ rpc' = "idle"
            /\ reqResult' = "raised_pre"
    /\ UNCHANGED <<isthread, loopEnd, wpc, ioloop, sigInstalled, nclose, stopBy,
                   max_requests, nr, hres, nhandled, postCalls, hookFailed,
                   runResult, nhooks, arbiter_proxy, shutSent, sdCalls, sigHit,
                   sigRpc>>
    /\ UNCHANGED notWorkerVars

\* handle_request: self._handle_request(req), which returns or raises
ReqHandle(h) ==
    /\ rpc = "pre"
    /\ rpc' = "handled"
    /\ hres' = h
    /\ nhandled' = nhandled + 1
    /\ UNCHANGED <<isthread, loopEnd, wpc, ioloop, sigInstalled, nclose, stopBy,
                   max_requests, nr, postCalls, hookFailed, reqResult, runResult,
                   nhooks, arbiter_proxy, shutSent, sdCalls, sigHit, sigRpc>>
    /\ UNCHANGED notWorkerVars

\* How a call ends whose body ended as h
Ended(h) == IF h = "ok" THEN "returned" ELSE "raised"

AfterHookRaises(out, ok) == IF ok THEN out ELSE "raised_hook"

\* `try: hook(...) except: pass` in a finally clause: the call ends as it
\* would have without the hook, whether the hook returns (ok) or raises
AfterHook(out, ok) == out

\* handle_request: the finally clause calls self.cfg.post_request
ReqPost(ok) ==
    /\ rpc = "handled"
    /\ rpc' = "idle"
    /\ postCalls' = postCalls + 1
    /\ hookFailed' = hookFailed \cup (IF ok THEN {} ELSE {"post_request"})
    /\ reqResult' = AfterHook(Ended(hres), ok)
    /\ UNCHANGED <<isthread, loopEnd, wpc, ioloop, sigInstalled, nclose, stopBy,
                   max_requests, nr, hres, nhandled, runResult, nhooks,
                   arbiter_proxy, shutSent, sdCalls, sigHit, sigRpc>>
    /\ UNCHANGED notWorkerVars

\* signal_stop, the handler of SIGINT, SIGQUIT and SIGTERM; it runs
\* between two steps of whatever the worker's main thread is doing
Signal(sig) ==
    /\ sigInstalled
    /\ wpc # "exited"
    /\ HandlerOf(sig) = "signal_stop"
    /\ Stop("signal")
    /\ IF StopApplies(ioloop) /\ sigHit < 0
       THEN sigHit' = nr /\ sigRpc' = rpc
       ELSE UNCHANGED <<sigHit, sigRpc>>
    /\ UNCHANGED <<isthread, loopEnd, wpc, sigInstalled, max_requests, nr, rpc, hres,
                   nhandled, postCalls, hookFailed, reqResult, runResult, nhooks,
                   arbiter_proxy, shutSent, sdCalls>>
    /\ UNCHANGED notWorkerVars

\* _run: the log.exception calls of `except Exception`
RunLogged(how) == IF how = "exception" THEN 1 ELSE 0

RunOutcomeRaises(how) == IF how = "stop" THEN "returned" ELSE how

\* How _run ends when ioloop.start() ends by `how`: it returns after
\* stop(), an Exception is logged, SystemExit is raised again
RunOutcome(how) == IF how = "SystemExit" THEN "SystemExit" ELSE "returned"

\* _run: self.ioloop.start() ends, after stop() or by raising
LoopEnd(how) ==
    /\ wpc = "running"
    /\ rpc = "idle"
    /\ how = "stop" => ioloop = "stopping"
    /\ wpc' = "finally"
    /\ ioloop' = "stopped"
    /\ runResult' = RunOutcome(how)
    /\ loopEnd' = [how |-> how, logged |-> RunLogged(how)]
    /\ UNCHANGED <<isthread, sigInstalled, nclose, stopBy, max_requests, nr,
                   rpc, hres, nhandled, postCalls, hookFailed, reqResult, nhooks,
                   arbiter_proxy, shutSent, sdCalls, sigHit, sigRpc>>
    /\ UNCHANGED notWorkerVars

BeforeExitSkipped ==
    /\ wpc = "finally"
    /\ wpc' = "exit_hook"
    /\ UNCHANGED <<isthread, loopEnd, ioloop, sigInstalled, nclose, stopBy,
                   max_requests, nr, rpc, hres, nhandled, postCalls, hookFailed,
                   reqResult, runResult, nhooks, arbiter_proxy, shutSent,
                   sdCalls, sigHit, sigRpc>>
    /\ UNCHANGED notWorkerVars

\* _run: the finally clause calls self.before_exit()
BeforeExit ==
    /\ wpc = "finally"
    /\ wpc' = "exit_hook"
    /\ nhooks' = [nhooks EXCEPT !["before_exit"] = @ + 1]
    /\ UNCHANGED <<isthread, loopEnd, ioloop, sigInstalled, nclose, stopBy,
                   max_requests, nr, rpc, hres, nhandled, postCalls, hookFailed,
                   reqResult, runResult, arbiter_proxy, shutSent, sdCalls,
                   sigHit, sigRpc>>
    /\ UNCHANGED notWorkerVars

\* _run: the finally clause calls self.cfg.worker_exit(self)
WorkerExit(ok) ==
    /\ wpc = "exit_hook"
    /\ wpc' = "exited"
    /\ nhooks' = [nhooks EXCEPT !["worker_exit"] = @ + 1]
    /\ hookFailed' = hookFailed \cup (IF ok THEN {} ELSE {"worker_exit"})
    /\ runResult' = AfterHook(runResult, ok)
    /\ UNCHANGED <<isthread, loopEnd, ioloop, sigInstalled, nclose, stopBy,
                   max_requests, nr, rpc, hres, nhandled, postCalls, reqResult,
                   arbiter_proxy, shutSent, sdCalls, sigHit, sigRpc>>
    /\ UNCHANGED notWorkerVars

\* on_remote: the parent's proxy arrives once the worker has announced
\* itself
OnRemote ==
    /\ wpc \in {"installed", "running"}
    /\ rpc = "idle"
    /\ ~arbiter_proxy
    /\ arbiter_proxy' = TRUE
    /\ UNCHANGED <<isthread, loopEnd, wpc, ioloop, sigInstalled, nclose, stopBy,
                   max_requests, nr, rpc, hres, nhandled, postCalls, hookFailed,
                   reqResult, runResult, nhooks, shutSent, sdCalls, sigHit,
                   sigRpc>>
    /\ UNCHANGED notWorkerVars

ShutDownSendsUnset(io, proxy) == LoopRunning(io)

\* _shut_down: `if self.ioloop.running() and self.arbiter_proxy`
ShutDownSends(io, proxy) == LoopRunning(io) /\ proxy

\* _shut_down
ShutDown ==
    /\ sdCalls < MaxShutDownCalls
    /\ sdCalls' = sdCalls + 1
    /\ shutSent' = IF ShutDownSends(ioloop, arbiter_proxy)
                   THEN shutSent + 1 ELSE shutSent
    /\ UNCHANGED <<isthread, loopEnd, wpc, ioloop, sigInstalled, nclose, stopBy,
                   max_requests, nr, rpc, hres, nhandled, postCalls, hookFailed,
                   reqResult, runResult, nhooks, arbiter_proxy, sigHit, sigRpc>>
    /\ UNCHANGED notWorkerVars

WorkerNext ==
    \/ Spawn
    \/ Setup
    \/ InstallSignals
    \/ StartLoop
    \/ ReqStart
    \/ ReqCheck
    \/ \E ok \in BOOLEAN : ReqPre(ok)
    \/ \E h \in {"ok", "raise"} : ReqHandle(h)
    \/ \E ok \in BOOLEAN : ReqPost(ok)
    \/ \E sig \in Signals : Signal(sig)
    \/ \E how \in {"stop", "exception", "SystemExit"} : LoopEnd(how)
    \/ BeforeExit
    \/ \E ok \in BOOLEAN : WorkerExit(ok)
    \/ OnRemote
    \/ ShutDown

WorkerInit ==
    \E thread \in BOOLEAN, arg \in 0..MaxK : WorkerInitWith(thread, arg)

WorkerStart == PoolInit /\ WaitInit /\ WorkerInit /\ ArbInit /\ ConnOff
    /\ LockOff /\ RpcInit

WorkerSpec == WorkerStart /\ [][WorkerNext]_allVars

\* The worker's own steps are taken once they can be: setup goes on to the
\* loop, a request that was started is carried to its end, a loop that
\* was stopped returns, and _run finishes its finally clause.
WorkerFairness ==
    /\ WF_allVars(Setup)
    /\ WF_allVars(InstallSignals)
    /\ WF_allVars(StartLoop)
    /\ WF_allVars(ReqCheck)
    /\ WF_allVars(\E ok \in BOOLEAN : ReqPre(ok))
    /\ WF_allVars(\E h \in {"ok", "raise"} : ReqHandle(h))
    /\ WF_allVars(\E ok \in BOOLEAN : ReqPost(ok))
    /\ WF_allVars(LoopEnd("stop"))
    /\ WF_allVars(BeforeExit)
    /\ WF_allVars(\E ok \in BOOLEAN : WorkerExit(ok))

FairWorkerSpec == WorkerSpec /\ WorkerFairness

LoopOver == wpc \in {"finally", "exit_hook", "exited"}

\* C12: a stop by auto-restart is made only when the handler of request
\* max_requests has ended, and no request beyond max_requests is started.
C12_AutoRestartAfterRequest ==
    /\ stopBy = "auto" => nhandled >= max_requests
    /\ nr <= max_requests

\* C13: once SIGINT, SIGQUIT or SIGTERM has stopped the running loop, no
\* new request is started, the loop does not end inside a request, a
\* request that was being handled has ended when the loop is over, and
\* the worker goes on to exit.
C13_SignalStop ==
    /\ [][sigHit >= 0 => nr' = nr]_allVars
    /\ [](LoopOver => rpc = "idle")
    /\ []((LoopOver /\ sigHit >= 0 /\ sigRpc # "idle") => reqResult # "none")
    /\ (sigHit >= 0) ~> (wpc = "exited")

C13_Witness ==
    /\ sigHit >= 0
    /\ sigRpc \in {"counted", "checked", "pre"}
    /\ wpc = "exited"
    /\ reqResult = "returned"
    /\ nr < MaxReqs

\* C14: when handle_request has ended, cfg.post_request was called exactly
\* once for that request.
C14_PostRequestOnce == (rpc = "idle" /\ nr > 0) => postCalls = 1

\* C15: a post_request or worker_exit hook that raises changes nothing of
\* how its caller ends: handle_request ends as _handle_request did, and
\* _run ends as it would have.
C15_HookFailureSwallowed ==
    /\ reqResult # "raised_hook"
    /\ runResult # "raised_hook"
    /\ (rpc = "idle" /\ postCalls = 1) => reqResult = Ended(hres)
    /\ wpc = "exited" => runResult \in {"returned", "SystemExit"}

C15_Witness ==
    /\ hookFailed = {"post_request", "worker_exit"}
    /\ wpc = "exited"
    /\ reqResult = "raised"

\* C18: a _shut_down call signals the parent exactly when the loop is
\* running and the proxy is set; otherwise it sends nothing; it changes
\* nothing else of the worker.
C18_ShutDownGuard ==
    [][sdCalls' # sdCalls =>
          /\ shutSent' = IF ioloop = "running" /\ arbiter_proxy
                         THEN shutSent + 1 ELSE shutSent
          /\ UNCHANGED <<wpc, ioloop, nclose, stopBy, nr, rpc,
                         arbiter_proxy, runResult>>]_allVars

C18_Witness ==
    /\ shutSent = 1
    /\ sdCalls = 2
    /\ ioloop = "running"

\* is_alive() of the worker's thread or process: started and not finished
Alive == wpc \in {"spawned", "setup", "installed", "running", "finally",
                  "exit_hook"}

\* The worker sends its address to the parent, which then holds it in
\* MANAGED_ACTORS
Announce ==
    /\ wpc \in {"installed", "running"}
    /\ ~announced
    /\ announced' = TRUE
    /\ managed' = TRUE
    /\ UNCHANGED <<isthread, loopEnd, wpc, ioloop, sigInstalled, nclose, stopBy,
                   max_requests, nr, rpc, hres, nhandled, postCalls,
                   hookFailed, reqResult, runResult, nhooks, arbiter_proxy,
                   shutSent, sdCalls, sigHit, sigRpc>>
    /\ UNCHANGED <<inbox, outbox, MESSAGES, result, nping, stopSent>>
    /\ UNCHANGED notArbVars

\* a.send(arbiter, 'stop')
SendStop ==
    /\ announced
    /\ managed
    /\ ~stopSent
    /\ stopSent' = TRUE
    /\ inbox' = Append(inbox, <<"stop", 0>>)
    /\ UNCHANGED <<isthread, loopEnd, wpc, ioloop, sigInstalled, nclose, stopBy,
                   max_requests, nr, rpc, hres, nhandled, postCalls,
                   hookFailed, reqResult, runResult, nhooks, arbiter_proxy,
                   shutSent, sdCalls, sigHit, sigRpc>>
    /\ UNCHANGED <<announced, managed, outbox, MESSAGES, result, nping>>
    /\ UNCHANGED notArbVars

\* a.send(arbiter, 'ping'): the request is recorded in MESSAGES under its
\* rid until its reply is delivered
SendPing ==
    /\ announced
    /\ managed
    /\ Accepting
    /\ nping < MaxPings
    /\ nping' = nping + 1
    /\ MESSAGES' = MESSAGES \cup {nping + 1}
    /\ inbox' = Append(inbox, <<"ping", nping + 1>>)
    /\ UNCHANGED <<isthread, loopEnd, wpc, ioloop, sigInstalled, nclose, stopBy,
                   max_requests, nr, rpc, hres, nhandled, postCalls,
                   hookFailed, reqResult, runResult, nhooks, arbiter_proxy,
                   shutSent, sdCalls, sigHit, sigRpc>>
    /\ UNCHANGED <<announced, managed, outbox, result, stopSent>>
    /\ UNCHANGED notArbVars

\* The worker's answer to a command
Reply(cmd) == IF cmd = "ping" THEN "pong" ELSE "none"

\* The worker's loop takes the next command between two requests: stop
\* calls _stop, ping is answered
HandleCommand ==
    /\ Accepting
    /\ rpc = "idle"
    /\ inbox # <<>>
    /\ inbox' = Tail(inbox)
    /\ IF Head(inbox)[1] = "stop"
       THEN /\ Stop("command")
            /\ UNCHANGED outbox
       ELSE /\ outbox' = Append(outbox,
                                <<Head(inbox)[2], Reply(Head(inbox)[1])>>)
            /\ UNCHANGED <<ioloop, nclose, stopBy>>
    /\ UNCHANGED <<isthread, loopEnd, wpc, sigInstalled, max_requests, nr, rpc, hres,
                   nhandled, postCalls, hookFailed, reqResult, runResult,
                   nhooks, arbiter_proxy, shutSent, sdCalls, sigHit, sigRpc>>
    /\ UNCHANGED <<announced, managed, MESSAGES, result, nping, stopSent>>
    /\ UNCHANGED notArbVars

DeliveredKept(table, rid) == table

\* The table of outstanding messages once the reply for rid is delivered
Delivered(table, rid) == table \ {rid}

\* The parent receives a reply: the request's callback gets the result
\* and its record leaves MESSAGES
DeliverReply ==
    /\ outbox # <<>>
    /\ outbox' = Tail(outbox)
    /\ result' = [result EXCEPT ![Head(outbox)[1]] = Head(outbox)[2]]
    /\ MESSAGES' = Delivered(MESSAGES, Head(outbox)[1])
    /\ UNCHANGED <<isthread, loopEnd, wpc, ioloop, sigInstalled, nclose, stopBy,
                   max_requests, nr, rpc, hres, nhandled, postCalls,
                   hookFailed, reqResult, runResult, nhooks, arbiter_proxy,
                   shutSent, sdCalls, sigHit, sigRpc>>
    /\ UNCHANGED <<announced, managed, inbox, nping, stopSent>>
    /\ UNCHANGED notArbVars

\* The parent drops from MANAGED_ACTORS an actor that is no longer alive
Reap ==
    /\ managed
    /\ wpc = "exited"
    /\ managed' = FALSE
    /\ UNCHANGED <<isthread, loopEnd, wpc, ioloop, sigInstalled, nclose, stopBy,
                   max_requests, nr, rpc, hres, nhandled, postCalls,
                   hookFailed, reqResult, runResult, nhooks, arbiter_proxy,
                   shutSent, sdCalls, sigHit, sigRpc>>
    /\ UNCHANGED <<announced, inbox, outbox, MESSAGES, result, nping, stopSent>>
    /\ UNCHANGED notArbVars

ArbiterNext ==
    \/ Spawn
    \/ Setup
    \/ InstallSignals
    \/ StartLoop
    \/ ReqStart
    \/ ReqCheck
    \/ \E ok \in BOOLEAN : ReqPre(ok)
    \/ \E h \in {"ok", "raise"} : ReqHandle(h)
    \/ \E ok \in BOOLEAN : ReqPost(ok)
    \/ \E how \in {"stop", "exception", "SystemExit"} : LoopEnd(how)
    \/ BeforeExit
    \/ \E ok \in BOOLEAN : WorkerExit(ok)
    \/ Announce
    \/ SendStop
    \/ SendPing
    \/ HandleCommand
    \/ DeliverReply
    \/ Reap

\* The test's actor: impl = 'thread'
ArbiterWorkerInit == \E arg \in 0..MaxK : WorkerInitWith(TRUE, arg)

ArbiterStart ==
    PoolInit /\ WaitInit /\ ArbiterWorkerInit /\ ArbInit /\ ConnOff
    /\ LockOff /\ RpcInit

ArbiterSpec == ArbiterStart /\ [][ArbiterNext]_allVars

\* The loop serves every command that stays or keeps becoming ready, and
\* the parent delivers replies and reaps dead actors
FairArbiterSpec ==
    /\ ArbiterSpec
    /\ WorkerFairness
    /\ SF_allVars(HandleCommand)
    /\ WF_allVars(DeliverReply)
    /\ WF_allVars(Reap)

\* C19: when the worker announces its address it is in MANAGED_ACTORS and
\* alive; after the stop command is sent it is eventually removed from
\* MANAGED_ACTORS, and once removed it is not alive.
C19_StopRemoves ==
    /\ [][(announced' /\ ~announced) => (managed' /\ Alive')]_allVars
    /\ stopSent ~> ~managed
    /\ []((announced /\ ~managed) => ~Alive)

C19_Witness ==
    /\ stopSent
    /\ stopBy = "command"
    /\ announced
    /\ ~managed
    /\ ~Alive

MaxConns == 2
MaxConnReqs == 2

\* What can be raised while a connection is handled: socket.error with
\* errno EPIPE, ECONNRESET or another one, another Exception, and an
\* exception that is not an Exception (SystemExit, KeyboardInterrupt)
SocketErrors == {"EPIPE", "ECONNRESET", "EOTHER"}
Errors == SocketErrors \cup {"Exception", "SystemExit"}

HandlerSocketOnly(e) == IF e \in SocketErrors THEN "socket" ELSE "none"

\* handle: the except clause that catches e
Handler(e) ==
    IF e \in SocketErrors THEN "socket"
    ELSE IF e = "Exception" THEN "general" ELSE "none"

\* handle: the level the socket.error clause logs at
LogFor(e) == IF e \notin {"EPIPE", "ECONNRESET"} THEN "error" ELSE "debug"

AfterHandlerReturns(h) == IF h = "general" THEN "idle" ELSE "finally"

\* handle: where control goes after an except clause; the `return` of the
\* general clause also passes through the finally clause
AfterHandler(h) == "finally"

\* handle is called with a new client socket
ConnOpen ==
    /\ cpc = "idle"
    /\ nconn < MaxConns
    /\ nconn' = nconn + 1
    /\ cpc' = "parser"
    /\ exc' = "none"
    /\ caught' = "none"
    /\ closes' = 0
    /\ handleResult' = "none"
    /\ logged' = "none"
    /\ sent500' = FALSE
    /\ creq' = 0
    /\ UNCHANGED <<alive, debug>>
    /\ UNCHANGED <<workerVars, notConnVars>>

\* handle: parser = http.RequestParser(client), which returns or raises
ConnParser(e) ==
    /\ cpc = "parser"
    /\ IF e = "ok"
       THEN cpc' = "next" /\ exc' = exc
       ELSE cpc' = "except" /\ exc' = e
    /\ UNCHANGED <<alive, debug, caught, closes, handleResult, logged, sent500,
                   nconn, creq>>
    /\ UNCHANGED <<workerVars, notConnVars>>

\* handle: `with self.timeout_ctx(): req = parser.next()`, which gives a
\* request, gives nothing (break), raises StopIteration or raises e
ParserNext(o) ==
    /\ cpc = "next"
    /\ o = "req" => creq < MaxConnReqs
    /\ IF o = "req" THEN cpc' = "request" /\ exc' = exc
       ELSE IF o \in {"none", "StopIteration"}
       THEN cpc' = "finally" /\ exc' = exc
       ELSE cpc' = "except" /\ exc' = o
    /\ UNCHANGED <<alive, debug, caught, closes, handleResult, logged, sent500,
                   nconn, creq>>
    /\ UNCHANGED <<workerVars, notConnVars>>

\* handle_request: self.nr += 1 is reached when pre_request and
\* wsgi.create have returned
Counted(at) == at \in {"none", "app"}

\* handle_request: how the call ends. Nothing raised: False for
\* ALREADY_HANDLED, StopIteration when req.should_close(), else True.
\* An Exception e raised at `at`: raised again unless self.debug, where
\* util.write_error is called and False returned (or werr raised by it).
\* SystemExit is not caught by `except Exception`.
RequestOutcome(at, e, app, dbg, werr) ==
    IF at = "none"
    THEN CASE app = "ALREADY_HANDLED" -> "False"
           [] app = "close" -> "StopIteration"
           [] OTHER -> "True"
    ELSE IF e = "SystemExit" THEN e
    ELSE IF ~dbg THEN e
    ELSE IF werr = "ok" THEN "False" ELSE werr

\* handle: self.handle_request(req, client, addr), run to its end
ConnRequest(at, e, app, werr, post) ==
    /\ cpc = "request"
    /\ creq' = creq + 1
    /\ postCalls' = postCalls + 1
    /\ IF Counted(at)
       THEN /\ nr' = nr + 1
            /\ alive' = IF alive /\ nr + 1 >= max_requests
                        THEN FALSE ELSE alive
       ELSE UNCHANGED <<nr, alive>>
    /\ LET out == AfterHook(RequestOutcome(at, e, app, debug, werr), post)
       IN  IF out \in {"True", "False"}
           THEN cpc' = "next" /\ exc' = exc
           ELSE IF out = "StopIteration"
           THEN cpc' = "finally" /\ exc' = exc
           ELSE cpc' = "except" /\ exc' = out
    /\ UNCHANGED <<debug, caught, closes, handleResult, logged, sent500, nconn>>
    /\ UNCHANGED <<isthread, loopEnd, wpc, ioloop, sigInstalled, nclose, stopBy,
                   max_requests, rpc, hres, nhandled, hookFailed, reqResult,
                   runResult, nhooks, arbiter_proxy, shutSent, sdCalls, sigHit,
                   sigRpc>>
    /\ UNCHANGED notConnVars

\* handle: the except clauses. socket.error is logged; for another
\* Exception the 500 response is attempted inside try/except: pass (w
\* tells whether the write worked); anything else is not caught
ConnExcept(w) ==
    /\ cpc = "except"
    /\ cpc' = AfterHandler(Handler(exc))
    /\ caught' = IF Handler(exc) = "none" THEN caught ELSE exc
    /\ exc' = IF Handler(exc) = "none" THEN exc ELSE "none"
    /\ logged' = CASE Handler(exc) = "socket" -> LogFor(exc)
                   [] Handler(exc) = "general" -> "error"
                   [] OTHER -> logged
    /\ sent500' = (Handler(exc) = "general")
    /\ UNCHANGED <<alive, debug, closes, handleResult, nconn, creq>>
    /\ UNCHANGED <<workerVars, notConnVars>>

\* handle: the finally clause, util.close(client); then handle returns,
\* or the exception no clause caught goes on to the caller
ConnClose ==
    /\ cpc = "finally"
    /\ cpc' = "idle"
    /\ closes' = closes + 1
    /\ handleResult' = IF exc = "none" THEN "returned" ELSE "raised"
    /\ UNCHANGED <<alive, debug, exc, caught, logged, sent500, nconn, creq>>
    /\ UNCHANGED <<workerVars, notConnVars>>

ConnNext ==
    \/ ConnOpen
    \/ \E e \in {"ok"} \cup Errors : ConnParser(e)
    \/ \E o \in {"req", "none", "StopIteration"} \cup Errors : ParserNext(o)
    \/ \E at \in {"none", "pre", "create", "app"}, e \in Errors,
          app \in {"ALREADY_HANDLED", "keep", "close"},
          werr \in {"ok"} \cup SocketErrors, post \in BOOLEAN :
            ConnRequest(at, e, app, werr, post)
    \/ \E w \in BOOLEAN : ConnExcept(w)
    \/ ConnClose

ConnInit == \E dbg \in BOOLEAN : ConnInitWith(dbg)

ConnWorkerInit == \E arg \in 0..MaxK : WorkerInitWith(FALSE, arg)

ConnStart ==
    PoolInit /\ WaitInit /\ ConnWorkerInit /\ ArbInit /\ ConnInit
    /\ LockOff /\ RpcInit

ConnSpec == ConnStart /\ [][ConnNext]_allVars

SentinelCount ==
    Cardinality({i \in DOMAIN queue : queue[i] = NoTask})
    + Cardinality({i \in DOMAIN ready :
                      ready[i].type = "task" /\ ready[i].task = NoTask})
    + Cardinality({g \in CtxIds :
                      ctx[g].st = "running" /\ ctx[g].task = NoTask})

\* The _green_task coroutines that drive greenlet g: scheduled, waking,
\* suspended on an awaitable, or inside greenlet.switch()
Loops(g) ==
    Cardinality({i \in DOMAIN ready :
                    ready[i].type \in {"task", "wake"} /\ ready[i].g = g})
    + Cardinality({w \in awaiting : w.g = g})
    + (IF ctx[g].st = "running" THEN 1 ELSE 0)

\* C21: an entry leaves the queue only by being handed to an idle
\* greenlet: every accepted task is still queued or was handed over, once,
\* and after shutdown the None entry is queued, on its way to a greenlet,
\* or has terminated one.
C21_DispatchOnlyToIdle ==
    /\ \A t \in Submitted : t \in Range(queue) \cup Range(handed)
    /\ \A i, j \in DOMAIN handed : handed[i] = handed[j] => i = j
    /\ shutdown => (SentinelCount >= 1 \/ Dead # {})

\* C22: _available is a subset of _greenlets, and a greenlet in _available
\* is suspended in _green_run waiting for an entry: it neither executes a
\* callable nor is suspended inside one.
C22_IdleSubsetLive ==
    /\ available \subseteq greenlets
    /\ \A g \in available : ctx[g].st = "idle" /\ ctx[g].task = NoTask

C22_Witness ==
    \E g1, g2 \in CtxIds :
        /\ g1 \in available
        /\ g2 \in greenlets \ available
        /\ ctx[g2].st = "waiting"

\* C23: a greenlet that received None removes itself, and only itself,
\* from _greenlets; it puts one new None exactly when greenlets remain,
\* and resolves the waiter exactly when none remains and a waiter is set;
\* after one shutdown call at most one None exists at any time.
C23_Cascade ==
    /\ [][\A g \in CtxIds :
            (ctx[g].st = "running" /\ ctx[g].task = NoTask
                /\ ctx'[g].st = "dead") =>
              /\ greenlets' = greenlets \ {g}
              /\ SentinelCount' \in {SentinelCount - 1, SentinelCount}
              /\ SentinelCount' = SentinelCount => greenlets' # {}
              /\ (greenlets' # {} /\ available # {}) =>
                     SentinelCount' = SentinelCount
              /\ (waiters' # waiters) <=> (greenlets' = {} /\ waiter # 0)
              /\ (waiters' # waiters) =>
                     (waiters'[waiter] = "done" /\ waiter' = 0)]_allVars
    /\ [][greenlets' # greenlets /\ greenlets' \subseteq greenlets =>
            \E g \in CtxIds : /\ greenlets' = greenlets \ {g}
                               /\ ctx[g].st = "running"
                               /\ ctx[g].task = NoTask]_allVars
    /\ [](nshutdown <= 1 => SentinelCount <= 1)

C23_Witness ==
    /\ nshutdown = 1
    /\ Dead # {}
    /\ SentinelCount = 1
    /\ greenlets # {}

\* C29: a greenlet is driven by at most one _green_task coroutine at a
\* time, and an entry is scheduled for a greenlet only while the greenlet
\* is suspended waiting for one.
C29_OneLoopPerGreenlet ==
    \A g \in CtxIds :
        /\ Loops(g) <= 1
        /\ \A i \in DOMAIN ready :
              (ready[i].type = "task" /\ ready[i].g = g) =>
                  (ctx[g].st = "idle" /\ g \notin available)

C29_Witness ==
    \E g1, g2 \in CtxIds :
        /\ g1 # g2
        /\ Loops(g1) = 1
        /\ Loops(g2) = 1
        /\ ctx[g1].st = "waiting"
        /\ \E i \in DOMAIN ready : ready[i].type = "task" /\ ready[i].g = g2

\* ==== GreenPool: callables that wait more than once ======================
\* Tasks submitted, and wait() calls their callables make in all
MaxAwaitTasks == 2
MaxAwaits == 2

AwaitNext ==
    \/ nsubmit < MaxAwaitTasks /\ Submit
    \/ RunCheck
    \/ GreenTask
    \/ GreenTaskResume
    \/ \E w \in awaiting, ok \in BOOLEAN : Settle(w, ok)
    \/ \E g \in CtxIds, w \in WaitArgs, s \in {"pending", "ok", "err"} :
          WaitUpTo(g, w, s, MaxAwaits)
    \/ \E g \in CtxIds, f \in Finals : GreenRunTask(g, f)

AwaitSpec == PoolStart /\ [][AwaitNext]_allVars

\* C24: a greenlet suspended in wait() on an awaitable runs again only by
\* the wakeup of the coroutine awaiting it, scheduled when the awaitable
\* settled with a result, and wait() then returns that result; the same
\* for each later wait() of the callable, also when the awaitable had
\* already settled at the call.
C24_ResumedWithSettledValue ==
    [][\A g \in CtxIds :
        /\ (ctx[g].st = "waiting" /\ ctx'[g].st = "running") =>
              /\ \A w \in awaiting : w.g # g
              /\ ready # <<>>
              /\ Head(ready) = WakeCb(g, ctx[g].task, TRUE,
                                      AwaitVal(ctx[g].task, ctx[g].pos))
              /\ ctx'[g].got = AwaitVal(ctx[g].task, ctx[g].pos)
              /\ ctx'[g].task = ctx[g].task
              /\ ctx'[g].pos = ctx[g].pos
        /\ (ctx[g].st = "running" /\ ctx'[g].st = "running"
              /\ ctx'[g].pos # ctx[g].pos) =>
              /\ ctx'[g].pos = ctx[g].pos + 1
              /\ ctx'[g].got = AwaitVal(ctx[g].task, ctx'[g].pos)]_allVars

C24_Witness ==
    \E g \in CtxIds :
        /\ ctx[g].st = "waiting"
        /\ ctx[g].pos = 2
        /\ ctx[g].got = AwaitVal(ctx[g].task, 1)
        /\ ready # <<>>
        /\ Head(ready) = WakeCb(g, ctx[g].task, TRUE,
                                AwaitVal(ctx[g].task, 2))

\* ==== Worker: lifecycle and the end of _run ===============================
\* The lifecycle state of the worker: 0 created, 1 setup (init_runner has
\* made the loop), 2 running (ioloop.start() entered, no stop yet),
\* 3 stopping (stop() called, or _run in its finally clause), 4 exited
Phase(pc, io) ==
    CASE pc \in {"created", "spawned"} -> 0
      [] pc \in {"setup", "installed"} -> 1
      [] pc = "running" /\ io = "running" -> 2
      [] pc = "running" /\ io # "running" -> 3
      [] pc \in {"finally", "exit_hook"} -> 3
      [] pc = "exited" -> 4

\* C26: the worker goes through created, setup, running, stopping, exited
\* forwards only and never leaves exited; the loop exists before the signal
\* handlers are installed and before it runs; _stop closes the worker and
\* stops the loop only while the loop is running.
C26_LifecycleForward ==
    /\ [][Phase(wpc', ioloop') >= Phase(wpc, ioloop)]_allVars
    /\ [][wpc = "exited" => wpc' = "exited" /\ ioloop' = ioloop]_allVars
    /\ [][(nclose' # nclose \/ (ioloop' = "stopping" /\ ioloop # "stopping"))
            => /\ ioloop = "running"
               /\ ioloop' = "stopping"
               /\ nclose' = nclose + 1]_allVars
    /\ [](sigInstalled => ioloop # "none")
    /\ [](ioloop = "running" => wpc = "running")
    /\ [](Phase(wpc, ioloop) >= 1 => ioloop # "none")

C26_Witness ==
    /\ wpc = "exited"
    /\ sigInstalled
    /\ stopBy = "signal"
    /\ nclose = 1
    /\ nr >= 1

\* C27: when _run is over, however ioloop.start() ended (after a stop, by
\* an exception, by SystemExit), before_exit and cfg.worker_exit have each
\* been called exactly once, before_exit first; neither is called while the
\* loop has not ended.
C27_ExitHooksOnce ==
    /\ nhooks["worker_exit"] <= nhooks["before_exit"]
    /\ nhooks["before_exit"] <= 1
    /\ wpc = "exit_hook" =>
          (nhooks["before_exit"] = 1 /\ nhooks["worker_exit"] = 0)
    /\ wpc = "exited" =>
          (nhooks["before_exit"] = 1 /\ nhooks["worker_exit"] = 1)
    /\ ~LoopOver => (nhooks["before_exit"] = 0 /\ nhooks["worker_exit"] = 0)
    /\ LoopOver <=> loopEnd.how # "none"

C27_Witness ==
    /\ wpc = "exited"
    /\ loopEnd.how = "SystemExit"
    /\ "worker_exit" \in hookFailed
    /\ nhooks["worker_exit"] = 1

\* C28: an exception that ends ioloop.start() is logged once, the loop is
\* over and handles no further request, and _run returns; _run ends with a
\* raised error only for SystemExit, which is not logged.
C28_LoopErrorLogged ==
    /\ [](loopEnd.how = "exception" =>
            /\ loopEnd.logged = 1
            /\ runResult = "returned"
            /\ ioloop = "stopped"
            /\ rpc = "idle")
    /\ [](loopEnd.how \in {"stop", "SystemExit"} => loopEnd.logged = 0)
    /\ [](LoopOver => (runResult = "SystemExit" <=> loopEnd.how = "SystemExit"))
    /\ [](LoopOver => runResult \in {"returned", "SystemExit"})
    /\ [][LoopOver => (nr' = nr /\ rpc' = rpc /\ loopEnd' = loopEnd)]_allVars

C28_Witness ==
    /\ wpc = "exited"
    /\ loopEnd.how = "exception"
    /\ nhandled >= 1

\* ==== GreenPool: submit and shutdown around _shutdown_lock ===============
\* submit calls made in all
MaxLockSubmits == 3

\* A caller's thread executes: a signal handler runs on the thread it
\* interrupted, which goes on only when the handler has returned
CanRun(c) ==
    \/ c = "shutdown"
    \/ ~bySignal
    \/ lpc["shutdown"] \in {"idle", "done"}

\* submit is called
LockSubmitCall ==
    /\ CanRun("submit")
    /\ lpc["submit"] = "idle"
    /\ Len(lres) < MaxLockSubmits
    /\ lpc' = [lpc EXCEPT !["submit"] = "acquire"]
    /\ UNCHANGED <<bySignal, lockOwner, lflag, lput, lres>>
    /\ UNCHANGED notLockVars

\* shutdown is called, from another thread or by a signal handler
LockShutdownCall ==
    /\ lpc["shutdown"] = "idle"
    /\ lpc' = [lpc EXCEPT !["shutdown"] = "acquire"]
    /\ UNCHANGED <<bySignal, lockOwner, lflag, lput, lres>>
    /\ UNCHANGED notLockVars

\* `with self._shutdown_lock:` entered; threading.Lock is not reentrant
\* and knows no owner: acquire blocks while the lock is held
LockAcquire(c) ==
    /\ CanRun(c)
    /\ lpc[c] = "acquire"
    /\ lockOwner = "none"
    /\ lockOwner' = c
    /\ lpc' = [lpc EXCEPT ![c] = "locked"]
    /\ UNCHANGED <<bySignal, lflag, lput, lres>>
    /\ UNCHANGED notLockVars

\* submit: `if self._shutdown: raise RuntimeError(...)`
LockSubmitCheck ==
    /\ CanRun("submit")
    /\ lpc["submit"] = "locked"
    /\ lpc' = [lpc EXCEPT !["submit"] = IF lflag THEN "raise" ELSE "put"]
    /\ UNCHANGED <<bySignal, lockOwner, lflag, lput, lres>>
    /\ UNCHANGED notLockVars

\* submit: self._put((future, func, args, kwargs))
LockSubmitPut ==
    /\ CanRun("submit")
    /\ lpc["submit"] = "put"
    /\ lput' = Append(lput, "task")
    /\ lpc' = [lpc EXCEPT !["submit"] = "return"]
    /\ UNCHANGED <<bySignal, lockOwner, lflag, lres>>
    /\ UNCHANGED notLockVars

\* shutdown: self._shutdown = True
LockShutdownSet ==
    /\ lpc["shutdown"] = "locked"
    /\ lflag' = TRUE
    /\ lpc' = [lpc EXCEPT !["shutdown"] = "put"]
    /\ UNCHANGED <<bySignal, lockOwner, lput, lres>>
    /\ UNCHANGED notLockVars

\* shutdown: self._put()
LockShutdownPut ==
    /\ lpc["shutdown"] = "put"
    /\ lput' = Append(lput, "None")
    /\ lpc' = [lpc EXCEPT !["shutdown"] = "return"]
    /\ UNCHANGED <<bySignal, lockOwner, lflag, lres>>
    /\ UNCHANGED notLockVars

\* The `with` block is left, by return or by the RuntimeError: the lock
\* is released; submit may be called again, shutdown is called once
LockRelease(c) ==
    /\ CanRun(c)
    /\ lpc[c] \in {"return", "raise"}
    /\ lockOwner' = "none"
    /\ IF c = "submit"
       THEN /\ lres' = Append(lres, IF lpc[c] = "raise" THEN "PoolClosed"
                                    ELSE "future")
            /\ lpc' = [lpc EXCEPT ![c] = "idle"]
       ELSE /\ lpc' = [lpc EXCEPT ![c] = "done"]
            /\ UNCHANGED lres
    /\ UNCHANGED <<bySignal, lflag, lput>>
    /\ UNCHANGED notLockVars

LockNext ==
    \/ LockSubmitCall
    \/ LockShutdownCall
    \/ \E c \in Callers : LockAcquire(c)
    \/ LockSubmitCheck
    \/ LockSubmitPut
    \/ LockShutdownSet
    \/ LockShutdownPut
    \/ \E c \in Callers : LockRelease(c)

LockInit == \E signal \in BOOLEAN : LockInitWith(signal)

LockStart ==
    PoolInit /\ WaitInit /\ WorkerOff /\ ArbInit /\ ConnOff
    /\ LockInit /\ RpcInit

LockSpec == LockStart /\ [][LockNext]_allVars

\* A caller waits for _shutdown_lock while the holder of the lock is the
\* thread its signal handler interrupted: no step is possible any more
LockStuck ==
    /\ bySignal
    /\ lpc["shutdown"] = "acquire"
    /\ lockOwner = "submit"

\* C25: submit tests _shutdown and puts its task, and shutdown sets
\* _shutdown and puts None, without the other caller in between: no task is
\* put once _shutdown is set, a submit that found _shutdown set raises and
\* puts nothing, and shutdown called from another thread or from a signal
\* handler never waits for a lock that cannot be released.
C25_AtomicNoDeadlock ==
    /\ \A i, j \in DOMAIN lput :
          (lput[i] = "None" /\ lput[j] = "task") => j < i
    /\ lpc["submit"] = "put" => ~lflag
    /\ lpc["submit"] = "raise" => lflag
    /\ ~LockStuck

\* ==== JSONRPC._call (apps/rpc/jsonrpc.py) ===============================
\* Request ids in use; NoId stands for no id (None)
MaxRpcIds == 2

\* JSONRPC.version
version == "2.0"

\* The request bodies: one body_data() cannot decode, and the JSON objects
\* with each member absent, well-formed or malformed. params: a mapping,
\* a sequence, a falsy value, or a number, which is not iterable
Bodies ==
    {[NoBody EXCEPT !.parse = "ValueError"]}
    \cup [parse : {"ok"},
          jsonrpc : {version, "1.0", "absent"},
          id : 0..MaxRpcIds,
          params : {"absent", "dict", "list", "falsy", "number"},
          method : {"known", "unknown", "absent"}]

\* A request arrives and _call starts
RpcRequest(b) ==
    /\ frame.pc = "idle"
    /\ body' = b
    /\ frame' = [NewFrame EXCEPT !.pc = "body_data"]
    /\ UNCHANGED res
    /\ UNCHANGED notRpcVars

\* `data = yield request.body_data()`; ValueError becomes InvalidRequest
RpcBodyData ==
    /\ frame.pc = "body_data"
    /\ frame' = IF body.parse = "ValueError"
                THEN [frame EXCEPT !.result = "InvalidRequest",
                                   !.pc = "respond"]
                ELSE [frame EXCEPT !.data = "body", !.pc = "version"]
    /\ UNCHANGED <<body, res>>
    /\ UNCHANGED notRpcVars

\* `if data.get('jsonrpc') != self.version: raise InvalidRequest(...)`
RpcVersion ==
    /\ frame.pc = "version"
    /\ frame' = IF body.jsonrpc # version
                THEN [frame EXCEPT !.result = "InvalidRequest",
                                   !.pc = "respond"]
                ELSE [frame EXCEPT !.pc = "params"]
    /\ UNCHANGED <<body, res>>
    /\ UNCHANGED notRpcVars

\* params = data.get('params'); args, kwargs = (), params for a dict,
\* else tuple(params or ()), {}: tuple() of a number raises TypeError
\* before args and kwargs are bound
RpcParams ==
    /\ frame.pc = "params"
    /\ frame' = IF body.params = "number"
                THEN [frame EXCEPT !.bound = @ \cup {"params"},
                                   !.result = "TypeError",
                                   !.pc = "respond"]
                ELSE [frame EXCEPT
                         !.bound = @ \cup {"params", "args", "kwargs"},
                         !.pc = "get_handler"]
    /\ UNCHANGED <<body, res>>
    /\ UNCHANGED notRpcVars

\* callable = self.get_handler(data.get('method')): raises for a method
\* that is not registered
RpcGetHandler ==
    /\ frame.pc = "get_handler"
    /\ frame' = IF body.method = "known"
                THEN [frame EXCEPT !.bound = @ \cup {"callable"},
                                   !.pc = "call"]
                ELSE [frame EXCEPT !.result = "NoSuchFunction",
                                   !.pc = "respond"]
    /\ UNCHANGED <<body, res>>
    /\ UNCHANGED notRpcVars

\* result = yield callable(request, *args, **kwargs): the method returns
\* a value or raises, a TypeError among others
RpcCall(h) ==
    /\ frame.pc = "call"
    /\ frame' = [frame EXCEPT !.result = h, !.pc = "respond"]
    /\ UNCHANGED <<body, res>>
    /\ UNCHANGED notRpcVars

\* What follows the try block: the response built from data and result.
\* For a TypeError, checkarity(callable, args, kwargs, discount=1) reads
\* three locals; reading one that was never bound raises
\* UnboundLocalError out of _call.
Response(f, b) ==
    LET failed == f.result # "value"
    IN IF f.result = "TypeError"
          /\ ~({"callable", "args", "kwargs"} \subseteq f.bound)
       THEN [NoRes EXCEPT !.kind = "raised", !.error = "UnboundLocalError"]
       ELSE [kind |-> "response",
             id |-> IF f.data = "body" THEN b.id ELSE NoId,
             jsonrpc |-> version,
             keys |-> {"id", "jsonrpc",
                       IF failed THEN "error" ELSE "result"},
             error |-> IF failed THEN f.result ELSE "none"]

\* _call after the try block, up to `yield res`
RpcRespond ==
    /\ frame.pc = "respond"
    /\ res' = Response(frame, body)
    /\ frame' = [frame EXCEPT !.pc = "done"]
    /\ UNCHANGED body
    /\ UNCHANGED notRpcVars

RpcNext ==
    \/ \E b \in Bodies : RpcRequest(b)
    \/ RpcBodyData
    \/ RpcVersion
    \/ RpcParams
    \/ RpcGetHandler
    \/ \E h \in {"value", "TypeError", "Exception"} : RpcCall(h)
    \/ RpcRespond

RpcStart ==
    PoolInit /\ WaitInit /\ WorkerOff /\ ArbInit /\ ConnOff
    /\ LockOff /\ RpcInit

RpcSpec == RpcStart /\ [][RpcNext]_allVars

\* C30: whatever the request body, _call ends with a response that has
\* the id of the request, "jsonrpc" equal to the protocol version and
\* exactly one of "result" and "error"; a request that failed before its
\* method was looked up gets an "error" response, not a raised exception.
C30_ResponseShape ==
    frame.pc = "done" =>
        /\ res.kind = "response"
        /\ res.id = body.id
        /\ res.jsonrpc = version
        /\ Cardinality(res.keys \cap {"result", "error"}) = 1
        /\ "callable" \notin frame.bound => "error" \in res.keys
====
